---- MODULE Spec2Model ----
(***************************************************************************)
(* Model of src/Model.py: the supply-chain classification script.          *)
(* main() runs load_data, preprocess_data, split_data and standardize_data *)
(* for the two targets, then run_models over the roster of classifiers.    *)
(* Each statement (or loop iteration) of the script that changes state is  *)
(* one action; pc is the position of the single thread of control.         *)
(*                                                                         *)
(* Values.  A cell of a string column is a string; the token "NaN" is the  *)
(* missing value (read_csv reads that token as missing).  A cell of a      *)
(* numeric column is an integer >= 0, or NaN (-1) when missing.  A cell of *)
(* the order-date column of the file is the parsed text of the date,       *)
(* [y, m, d, H], or NaT.  A table is [cols, rows]: the set of its column   *)
(* names and the sequence of its rows, each a function on cols; the row    *)
(* position is the index label pandas keeps.                               *)
(***************************************************************************)
EXTENDS Integers, Sequences, FiniteSets, TLC

\* Largest number of data rows of the input file.
MaxRows == 3

\* Number of rows of the one longer input file.
LongRows == 6

\* The missing value of a numeric column, of a string column, of a date.
NaN == -1
NaNStr == "NaN"
NaT == [y |-> 0, m |-> 0, d |-> 0, H |-> 0]

\* Value of an object that has not been created yet.
None == [cols |-> {}, rows |-> << >>]

(***************************************************************************)
(* Column lists of preprocess_data.                                        *)
(***************************************************************************)
DropCols ==
  {"Customer Email", "Product Status", "Customer Password", "Customer Street",
   "Customer Fname", "Customer Lname", "Latitude", "Longitude",
   "Product Description", "Product Image", "Order Zipcode",
   "shipping date (DateOrders)"}

RedundantCols ==
  {"Delivery Status", "Late_delivery_risk", "Order Status", "order date (DateOrders)"}

categorical_columns ==
  <<"Customer Country", "Market", "Type", "Product Name", "Customer Segment",
    "Customer State", "Order Region", "Order City", "Category Name",
    "Customer City", "Department Name", "Order State", "Shipping Mode",
    "order_week_day", "Order Country", "Customer Full Name">>

\* The categorical columns that hold numbers (the rest hold strings).
NumericCategorical == {"order_week_day"}

\* Categorical columns that come from the file (the other two are derived).
RawCategorical ==
  {categorical_columns[i] : i \in DOMAIN categorical_columns}
    \ {"order_week_day", "Customer Full Name"}

\* Every column of the file that the script names.
RequiredCols ==
  DropCols \cup RedundantCols \cup RawCategorical
    \cup {"Customer Zipcode", "Order Item Quantity", "Order Item Total"}

\* String columns of the file other than the categorical ones.
OtherStringCols ==
  {"Customer Email", "Customer Password", "Customer Street",
   "Product Description", "Product Image", "shipping date (DateOrders)"}

(***************************************************************************)
(* Input files.  A row of the file is built from the fields the script     *)
(* computes with; "Type" takes type, every other categorical column of the *)
(* file takes place, the remaining columns a fixed value.                  *)
(***************************************************************************)
RawRow(fname, lname, zip, date, status, delivery, qty, total, type, place) ==
  [c \in RequiredCols |->
     CASE c = "Customer Fname" -> fname
       [] c = "Customer Lname" -> lname
       [] c = "Customer Zipcode" -> zip
       [] c = "order date (DateOrders)" -> date
       [] c = "Order Status" -> status
       [] c = "Delivery Status" -> delivery
       [] c = "Late_delivery_risk" -> IF delivery = "Late delivery" THEN 1 ELSE 0
       [] c = "Order Item Quantity" -> qty
       [] c = "Order Item Total" -> total
       [] c = "Type" -> type
       [] c \in RawCategorical \ {"Type"} -> place
       [] c \in OtherStringCols -> "x"
       [] OTHER -> 0]

SampleSeq ==
  << RawRow("Mary", "Smith", NaN, [y |-> 2017, m |-> 1, d |-> 4, H |-> 22],
            "SUSPECTED_FRAUD", "Late delivery", 2, 30, "DEBIT", "LATAM"),
     RawRow("Ann", "Smith", 725, [y |-> 2018, m |-> 1, d |-> 5, H |-> 9],
            "COMPLETE", "Advance shipping", 1, 10, "CASH", "Europe"),
     RawRow("Mary", NaNStr, 725, NaT,
            NaNStr, "Late delivery", 1, 10, "DEBIT", "Europe") >>

SampleRows == {SampleSeq[i] : i \in DOMAIN SampleSeq}

\* The files with every required column: every sequence of 1..MaxRows
\* sample rows.
Files ==
  UNION { { [cols |-> RequiredCols, rows |-> rs] : rs \in [1..n -> SampleRows] }
          : n \in 1..MaxRows }

\* One longer file of LongRows rows (the sample rows in turn), long enough
\* for a test set of more than one row.
LongFile ==
  [cols |-> RequiredCols,
   rows |-> [i \in 1..LongRows |-> SampleSeq[((i - 1) % Len(SampleSeq)) + 1]]]

\* The files with one required column absent (one row is enough to meet
\* the step that references the column).
FilesMissing ==
  { [cols |-> RequiredCols \ {a},
     rows |-> << [c \in RequiredCols \ {a} |-> r[c]] >>]
    : a \in RequiredCols, r \in SampleRows }

(***************************************************************************)
(* Table helpers (pandas DataFrame operations).                            *)
(***************************************************************************)
\* df[c] = vals (one value per row): adds the column or overwrites it.
SetColumn(t, c, vals) ==
  [cols |-> t.cols \cup {c},
   rows |-> [i \in DOMAIN t.rows |->
               [k \in t.cols \cup {c} |->
                  IF k = c THEN vals[i] ELSE t.rows[i][k]]]]

\* df.drop(cs, axis=1): a new table without the columns cs.
DropColumns(t, cs) ==
  [cols |-> t.cols \ cs,
   rows |-> [i \in DOMAIN t.rows |-> [k \in t.cols \ cs |-> t.rows[i][k]]]]

\* The values of column c, by row position.
Column(t, c) == [i \in DOMAIN t.rows |-> t.rows[i][c]]

Range(s) == {s[i] : i \in DOMAIN s}

(***************************************************************************)
(* Pure functions of preprocess_data.                                      *)
(***************************************************************************)
\* Series.astype(str): the missing value becomes the text 'nan'.
AsStr(v) == IF v = NaNStr THEN "nan" ELSE v

\* Line 37: first name and last name, each as text, concatenated.
FullName(row) == AsStr(row["Customer Fname"]) \o AsStr(row["Customer Lname"])

\* Line 46: fillna(0) on the zipcode.
FillZip(row) == IF row["Customer Zipcode"] = NaN THEN 0 ELSE row["Customer Zipcode"]

\* Days from 1970-01-01 to the civil date y-m-d (proleptic Gregorian).
DaysFromCivil(y, m, d) ==
  LET yy  == IF m <= 2 THEN y - 1 ELSE y
      era == yy \div 400
      yoe == yy - era * 400
      mp  == (m + 9) % 12
      doy == (153 * mp + 2) \div 5 + d - 1
      doe == yoe * 365 + yoe \div 4 - yoe \div 100 + doy
  IN  era * 146097 + doe - 719468

\* DatetimeIndex(...).year / .month / .hour: the field of the date; a
\* missing date (NaT) gives a missing value.
DateYear(dt) == IF dt = NaT THEN NaN ELSE dt.y
DateMonth(dt) == IF dt = NaT THEN NaN ELSE dt.m
DateHour(dt) == IF dt = NaT THEN NaN ELSE dt.H

\* DatetimeIndex(...).weekday: 0 = Monday .. 6 = Sunday (1970-01-01 was a
\* Thursday); missing for NaT.
DateWeekday(dt) ==
  IF dt = NaT THEN NaN ELSE (DaysFromCivil(dt.y, dt.m, dt.d) + 3) % 7

\* pd.to_datetime: the instant, in hours since 1970-01-01 00:00.
ToDatetime(dt) ==
  IF dt = NaT THEN NaN ELSE DaysFromCivil(dt.y, dt.m, dt.d) * 24 + dt.H

\* Line 53.
TotalPrice(row) == row["Order Item Quantity"] * row["Order Item Total"]

\* Variant: a missing status is labelled as fraud too.
FraudLabelMissingAsFraud(status) ==
  IF status \in {"SUSPECTED_FRAUD", NaNStr} THEN 1 ELSE 0

\* Line 60: np.where(status == 'SUSPECTED_FRAUD', 1, 0).
FraudLabel(status) == IF status = "SUSPECTED_FRAUD" THEN 1 ELSE 0

\* Line 61: np.where(delivery == 'Late delivery', 1, 0).
LateLabel(delivery) == IF delivery = "Late delivery" THEN 1 ELSE 0

(***************************************************************************)
(* LabelEncoder.  fit sorts the distinct values (the missing value last);  *)
(* transform replaces a value by its 0-based position among them.          *)
(***************************************************************************)
\* The strings of the categorical columns, in code-point order.
Lexicon ==
  <<"AnnSmith", "Annnan", "CASH", "DEBIT", "Europe", "LATAM",
    "MarySmith", "Marynan">>

\* The sort key of value v of column c.
SortKey(c, v) ==
  IF c \in NumericCategorical
    THEN (IF v = NaN THEN 7 ELSE v)
    ELSE (IF v = NaNStr THEN Len(Lexicon) + 1
          ELSE CHOOSE k \in DOMAIN Lexicon : Lexicon[k] = v)

\* LabelEncoder.fit(y).classes_ for column c: the distinct values, sorted.
FitClasses(c, y) ==
  LET S == Range(y)
  IN  [k \in 1..Cardinality(S) |->
         CHOOSE v \in S :
           Cardinality({w \in S : SortKey(c, w) < SortKey(c, v)}) = k - 1]

\* Variant: positions counted from 1.
EncodeFromOne(classes, v) == CHOOSE k \in DOMAIN classes : classes[k] = v

\* LabelEncoder.transform(v): position of v in classes_, from 0.
Encode(classes, v) == (CHOOSE k \in DOMAIN classes : classes[k] = v) - 1

\* LabelEncoder.inverse_transform(code).
Decode(classes, code) == classes[code + 1]

(***************************************************************************)
(* State.                                                                  *)
(***************************************************************************)
VARIABLES
  pc,              \* position of the script
  raised,          \* "" or the position at which an exception was raised
  file,            \* the table in the input file
  dataset,         \* main's dataset: the table load_data returned
  data,            \* preprocess_data's local table
  col_i,           \* index of the encoding loop in categorical_columns
  le_classes,      \* classes_ of the LabelEncoder le
  le_input,        \* the column last given to le.fit_transform
  processed_data,  \* main's processed_data
  perm,            \* the permutation the seeded generator draws, once drawn
  parts,           \* per target: main's X_train, X_test, y_train, y_test
  std,             \* standardize_data's locals: X_train, X_test after scaling
  scaler,          \* per target: the state of that call's StandardScaler
  models,          \* per roster entry: the data its parameters were learned from
  model_i,         \* index of run_models' loop in the roster
  evals,           \* per target: the metrics evaluate_model returned last
  results,         \* run_models' results list
  out_file,        \* the content of model_results.txt
  log              \* history: the fit, predict and append events so far

vars == <<pc, raised, file, dataset, data, col_i, le_classes, le_input,
          processed_data, perm, parts, std, scaler, models, model_i, evals,
          results, out_file, log>>

\* The variables of preprocess_data and those of the stages after it.
early == <<file, dataset, data, col_i, le_classes, le_input>>
later == <<perm, parts, std, scaler, models, model_i, evals, results, out_file, log>>

\* An exception propagates out of main: the script stops.
Raise ==
  /\ pc' = "aborted"
  /\ raised' = pc

(***************************************************************************)
(* load_data (lines 24-30).                                                *)
(***************************************************************************)
load_data_ok ==
  /\ pc = "load_data"
  /\ dataset' = file
  /\ pc' = "pre_fullname"
  /\ UNCHANGED <<raised, file, data, col_i, le_classes, le_input, processed_data, later>>

\* read_csv raises (file missing or unreadable).
load_data_fail ==
  /\ pc = "load_data"
  /\ Raise
  /\ UNCHANGED <<file, dataset, data, col_i, le_classes, le_input, processed_data, later>>

(***************************************************************************)
(* preprocess_data (lines 34-76).  A statement that references a column    *)
(* the table does not have raises KeyError.                                *)
(***************************************************************************)
\* The columns each statement references.
Refs(p) ==
  CASE p = "pre_fullname" -> {"Customer Fname", "Customer Lname"}
    [] p = "pre_drop" -> DropCols
    [] p = "pre_fillzip" -> {"Customer Zipcode"}
    [] p = "pre_time" -> {"order date (DateOrders)"}
    [] p = "pre_total" -> {"Order Item Quantity", "Order Item Total"}
    [] p = "pre_todatetime" -> {"order date (DateOrders)"}
    [] p = "pre_fraud" -> {"Order Status"}
    [] p = "pre_late" -> {"Delivery Status"}
    [] p = "pre_drop2" -> RedundantCols
    [] p = "pre_encode" -> {categorical_columns[col_i]}
    [] OTHER -> {}

\* The table the statement at p works on.
Target(p) == IF p \in {"pre_fullname", "pre_drop"} THEN dataset ELSE data

PreSteps ==
  {"pre_fullname", "pre_drop", "pre_fillzip", "pre_time", "pre_total",
   "pre_todatetime", "pre_fraud", "pre_late", "pre_drop2", "pre_encode"}

KeyError ==
  /\ pc \in PreSteps
  /\ ~(Refs(pc) \subseteq Target(pc).cols)
  /\ Raise
  /\ UNCHANGED <<file, dataset, data, col_i, le_classes, le_input, processed_data, later>>

\* Line 37: the new column is assigned on the caller's table itself.
pre_fullname ==
  /\ pc = "pre_fullname"
  /\ Refs(pc) \subseteq dataset.cols
  /\ dataset' = SetColumn(dataset, "Customer Full Name",
                          [i \in DOMAIN dataset.rows |-> FullName(dataset.rows[i])])
  /\ pc' = "pre_drop"
  /\ UNCHANGED <<raised, file, data, col_i, le_classes, le_input, processed_data, later>>

\* Lines 40-43: data is a new table.
pre_drop ==
  /\ pc = "pre_drop"
  /\ Refs(pc) \subseteq dataset.cols
  /\ data' = DropColumns(dataset, DropCols)
  /\ pc' = "pre_fillzip"
  /\ UNCHANGED <<raised, file, dataset, col_i, le_classes, le_input, processed_data, later>>

\* Line 46.
pre_fillzip ==
  /\ pc = "pre_fillzip"
  /\ Refs(pc) \subseteq data.cols
  /\ data' = SetColumn(data, "Customer Zipcode",
                       [i \in DOMAIN data.rows |-> FillZip(data.rows[i])])
  /\ pc' = "pre_time"
  /\ UNCHANGED <<raised, file, dataset, col_i, le_classes, le_input, processed_data, later>>

\* Lines 49-52.
TimeFeatures(t) ==
  LET dates == Column(t, "order date (DateOrders)")
      Y == [i \in DOMAIN dates |-> DateYear(dates[i])]
      M == [i \in DOMAIN dates |-> DateMonth(dates[i])]
      W == [i \in DOMAIN dates |-> DateWeekday(dates[i])]
      H == [i \in DOMAIN dates |-> DateHour(dates[i])]
  IN  SetColumn(SetColumn(SetColumn(SetColumn(t,
        "order_year", Y), "order_month", M), "order_week_day", W), "order_hour", H)

pre_time ==
  /\ pc = "pre_time"
  /\ Refs(pc) \subseteq data.cols
  /\ data' = TimeFeatures(data)
  /\ pc' = "pre_total"
  /\ UNCHANGED <<raised, file, dataset, col_i, le_classes, le_input, processed_data, later>>

\* Line 53.
pre_total ==
  /\ pc = "pre_total"
  /\ Refs(pc) \subseteq data.cols
  /\ data' = SetColumn(data, "TotalPrice",
                       [i \in DOMAIN data.rows |-> TotalPrice(data.rows[i])])
  /\ pc' = "pre_todatetime"
  /\ UNCHANGED <<raised, file, dataset, col_i, le_classes, le_input, processed_data, later>>

\* Line 57.
pre_todatetime ==
  /\ pc = "pre_todatetime"
  /\ Refs(pc) \subseteq data.cols
  /\ LET dates == Column(data, "order date (DateOrders)")
     IN  data' = SetColumn(data, "order date (DateOrders)",
                           [i \in DOMAIN dates |-> ToDatetime(dates[i])])
  /\ pc' = "pre_fraud"
  /\ UNCHANGED <<raised, file, dataset, col_i, le_classes, le_input, processed_data, later>>

\* Line 60.
pre_fraud ==
  /\ pc = "pre_fraud"
  /\ Refs(pc) \subseteq data.cols
  /\ LET status == Column(data, "Order Status")
     IN  data' = SetColumn(data, "fraud",
                           [i \in DOMAIN status |-> FraudLabel(status[i])])
  /\ pc' = "pre_late"
  /\ UNCHANGED <<raised, file, dataset, col_i, le_classes, le_input, processed_data, later>>

\* Line 61.
pre_late ==
  /\ pc = "pre_late"
  /\ Refs(pc) \subseteq data.cols
  /\ LET delivery == Column(data, "Delivery Status")
     IN  data' = SetColumn(data, "late_delivery",
                           [i \in DOMAIN delivery |-> LateLabel(delivery[i])])
  /\ pc' = "pre_drop2"
  /\ UNCHANGED <<raised, file, dataset, col_i, le_classes, le_input, processed_data, later>>

\* Line 64.
pre_drop2 ==
  /\ pc = "pre_drop2"
  /\ Refs(pc) \subseteq data.cols
  /\ data' = DropColumns(data, RedundantCols)
  /\ pc' = "pre_encode"
  /\ col_i' = 1
  /\ UNCHANGED <<raised, file, dataset, le_classes, le_input, processed_data, later>>

\* Variant: a column that already holds numbers is left as it is.
fit_transform_strings_only(c, y) ==
  LET classes == FitClasses(c, y)
  IN  [classes |-> classes,
       codes |-> [i \in DOMAIN y |->
                    IF c \in NumericCategorical THEN y[i]
                    ELSE Encode(classes, y[i])]]

\* Lines 72-73, one iteration: data[col] = le.fit_transform(data[col]).
\* The one encoder le is refitted on the whole column, then looks it up.
fit_transform(c, y) ==
  LET classes == FitClasses(c, y)
  IN  [classes |-> classes, codes |-> [i \in DOMAIN y |-> Encode(classes, y[i])]]

pre_encode ==
  /\ pc = "pre_encode"
  /\ Refs(pc) \subseteq data.cols
  /\ LET c == categorical_columns[col_i]
         r == fit_transform(c, Column(data, c))
     IN  /\ le_input' = Column(data, c)
         /\ le_classes' = r.classes
         /\ data' = SetColumn(data, c, r.codes)
  /\ col_i' = col_i + 1
  /\ pc' = IF col_i = Len(categorical_columns) THEN "pre_return" ELSE "pre_encode"
  /\ UNCHANGED <<raised, file, dataset, processed_data, later>>

\* Line 76 and line 163.
pre_return ==
  /\ pc = "pre_return"
  /\ processed_data' = data
  /\ pc' = "split_fraud"
  /\ UNCHANGED <<raised, file, dataset, data, col_i, le_classes, le_input, later>>

preprocess_data ==
  \/ pre_fullname \/ pre_drop \/ pre_fillzip \/ pre_time \/ pre_total
  \/ pre_todatetime \/ pre_fraud \/ pre_late \/ pre_drop2 \/ pre_encode
  \/ pre_return

(***************************************************************************)
(* split_data (lines 80-86).  train_test_split(test_size=0.2,              *)
(* random_state=42) draws one permutation of the row positions from the    *)
(* generator seeded with 42: the first n_test positions are the test rows, *)
(* the others the train rows.  The permutation is a fixed function of the  *)
(* seed and of the number of rows, so both calls draw the same one; which  *)
(* one it is, is left open.                                                *)
(***************************************************************************)
Targets == {"fraud", "late_delivery"}

RECURSIVE PermsOf(_)
PermsOf(S) ==
  IF S = {} THEN {<< >>}
  ELSE UNION { { <<x>> \o p : p \in PermsOf(S \ {x}) } : x \in S }

\* rng.permutation(n): some permutation of the row positions; the one
\* already drawn when the generator is seeded again for the same n.
RowPermutations(n) == IF perm = << >> THEN PermsOf(1..n) ELSE {perm}

\* Variant: the test size rounded down.
NTestFloor(n) == n \div 5

\* ceil(0.2 * n) and the rest.
NTest(n) == (n + 4) \div 5
NTrain(n) == n - NTest(n)

\* X = data.loc[:, data.columns != target_col]
Features(t, target) == DropColumns(t, {target})

\* The rows of table t at the positions idx, with their index labels.
Take(t, idx) ==
  [idx |-> idx, cols |-> t.cols, rows |-> [k \in DOMAIN idx |-> t.rows[idx[k]]]]

\* The values of column c at the positions idx, with their index labels.
TakeLabels(t, c, idx) ==
  [idx |-> idx, vals |-> [k \in DOMAIN idx |-> t.rows[idx[k]][c]]]

TestIdx(p, n) == SubSeq(p, 1, NTest(n))
TrainIdx(p, n) == SubSeq(p, NTest(n) + 1, n)

train_test_split(t, target, p) ==
  LET n == Len(t.rows)
      X == Features(t, target)
  IN  [X_train |-> Take(X, TrainIdx(p, n)),
       X_test  |-> Take(X, TestIdx(p, n)),
       y_train |-> TakeLabels(t, target, TrainIdx(p, n)),
       y_test  |-> TakeLabels(t, target, TestIdx(p, n))]

SplitPc(target) == IF target = "fraud" THEN "split_fraud" ELSE "split_late"
FitPc(target) == IF target = "fraud" THEN "std_fit_fraud" ELSE "std_fit_late"
TransformPc(target) ==
  IF target = "fraud" THEN "std_transform_fraud" ELSE "std_transform_late"

split_data(target) ==
  /\ pc = SplitPc(target)
  /\ NTrain(Len(processed_data.rows)) > 0
  /\ \E p \in RowPermutations(Len(processed_data.rows)) :
       /\ perm' = p
       /\ parts' = [parts EXCEPT ![target] =
                      train_test_split(processed_data, target, p)]
  /\ pc' = FitPc(target)
  /\ UNCHANGED <<raised, early, processed_data, std, scaler, models, model_i,
                 evals, results, out_file, log>>

\* With one row the train set would be empty: train_test_split raises.
split_data_fail ==
  /\ pc \in {"split_fraud", "split_late"}
  /\ NTrain(Len(processed_data.rows)) = 0
  /\ Raise
  /\ UNCHANGED <<early, processed_data, later>>

(***************************************************************************)
(* standardize_data (lines 90-96).  The statistics of a column are kept    *)
(* exactly, as the count n, the sum and the sum of squares of its present  *)
(* values: mean_ = sum / n and var_ = sumsq / n - mean_^2.  A scaled cell  *)
(* (x - mean_) / scale_ is kept as the exact pair num = n*x - sum and      *)
(* den2 = n*sumsq - sum^2, i.e. num / sqrt(den2), or num / n when the      *)
(* variance is 0 (scale_ is then 1).                                       *)
(***************************************************************************)
RECURSIVE SumSeq(_)
SumSeq(s) == IF s = << >> THEN 0 ELSE Head(s) + SumSeq(Tail(s))

Present(v) == v # NaN

\* StandardScaler.fit(X): the statistics of every column of X.
ColumnStats(X) ==
  [c \in X.cols |->
     LET vs == SelectSeq(Column(X, c), Present)
     IN  [n |-> Len(vs),
          sum |-> SumSeq(vs),
          sumsq |-> SumSeq([k \in DOMAIN vs |-> vs[k] * vs[k]])]]

ScaleCell(st, x) ==
  IF x = NaN \/ st.n = 0
    THEN [nan |-> TRUE, num |-> 0, den2 |-> 0, n |-> 0]
    ELSE [nan |-> FALSE, num |-> st.n * x - st.sum,
          den2 |-> st.n * st.sumsq - st.sum * st.sum, n |-> st.n]

\* StandardScaler.transform(X) with the statistics stats: an array (the
\* index labels are gone).
Transform(stats, X) ==
  [cols |-> X.cols,
   rows |-> [i \in DOMAIN X.rows |->
               [c \in X.cols |-> ScaleCell(stats[c], X.rows[i][c])]]]

\* Variant: the scaler is fitted again, on the test matrix.
StatsRefitOnTest(stats, X_test) == ColumnStats(X_test)

\* The statistics the scaler holds after transforming the test matrix.
StatsAfterTransform(stats, X_test) == stats

NoStd == [X_train |-> None, X_test |-> None]

\* A scaler that has not been fitted.
NoScaler == [fitted |-> FALSE, stats |-> << >>]

\* Lines 92-93: a fresh scaler, fit_transform on the train matrix.
standardize_fit(target) ==
  /\ pc = FitPc(target)
  /\ LET stats == ColumnStats(parts[target].X_train)
     IN  /\ scaler' = [scaler EXCEPT ![target] = [fitted |-> TRUE, stats |-> stats]]
         /\ std' = [X_train |-> Transform(stats, parts[target].X_train),
                    X_test |-> parts[target].X_test]
  /\ pc' = TransformPc(target)
  /\ UNCHANGED <<raised, early, processed_data, perm, parts, models, model_i,
                 evals, results, out_file, log>>

\* Lines 94-96 and 167 / 171: transform on the test matrix, return, and
\* main's X_train, X_test become the scaled arrays.
standardize_transform(target) ==
  /\ pc = TransformPc(target)
  /\ LET stats == StatsAfterTransform(scaler[target].stats, std.X_test)
     IN  /\ scaler' = [scaler EXCEPT ![target].stats = stats]
         /\ parts' = [parts EXCEPT
                        ![target].X_train = std.X_train,
                        ![target].X_test = Transform(stats, std.X_test)]
  /\ std' = NoStd
  /\ pc' = IF target = "fraud" THEN "split_late" ELSE "fit_fraud"
  /\ model_i' = IF target = "fraud" THEN model_i ELSE 1
  /\ UNCHANGED <<raised, early, processed_data, perm, models, evals, results,
                 out_file, log>>

(***************************************************************************)
(* run_models (lines 124-156) and evaluate_model (lines 100-120).          *)
(* A model object holds the parameters its last fit learned; they are      *)
(* identified by the training data they were learned from (the target of   *)
(* the split).  A metric is identified by what it was computed from: the   *)
(* model that predicted, the data its parameters were learned from and the *)
(* test data it predicted and was scored on.                               *)
(***************************************************************************)
\* Lines 125-133: the class names of the roster, in order.
ModelNames ==
  <<"LogisticRegression", "GaussianNB", "LinearSVC", "KNeighborsClassifier",
    "LinearDiscriminantAnalysis", "RandomForestClassifier",
    "ExtraTreesClassifier", "XGBClassifier", "DecisionTreeClassifier">>

Unfitted == "unfitted"

MetricKinds == <<"accuracy", "recall", "f1">>

\* The target of an evaluation step, and the split whose matrices
\* run_models passes to evaluate_model in that step (lines 138, 141).
StepTarget(p) ==
  IF p \in {"fit_fraud", "predict_fraud"} THEN "fraud" ELSE "late_delivery"

\* Variant: the fraud split is passed to both evaluations.
DataPassedFraudOnly(target) == "fraud"

DataPassed(target) == target

\* Variant: a model that is already fitted keeps its parameters.
FitParamsKeep(old, train) == IF old = Unfitted THEN train ELSE old

\* model.fit(X_train, y_train): the parameters learned replace the old ones.
FitParams(old, train) == train

\* accuracy_score / recall_score / f1_score of y_test against
\* model.predict(X_test).
Metrics(model, test) ==
  [k \in DOMAIN MetricKinds |->
     [kind |-> MetricKinds[k], model |-> model.name,
      fit_on |-> model.params, test_on |-> test]]

\* Lines 143-151: the row of one classifier.
ResultRow(name, f, l) ==
  [k \in {"Model", "Fraud Detection Accuracy", "Fraud Detection Recall",
          "Fraud Detection F1", "Late Delivery Accuracy",
          "Late Delivery Recall", "Late Delivery F1"} |->
     CASE k = "Model" -> name
       [] k = "Fraud Detection Accuracy" -> f[1]
       [] k = "Fraud Detection Recall" -> f[2]
       [] k = "Fraud Detection F1" -> f[3]
       [] k = "Late Delivery Accuracy" -> l[1]
       [] k = "Late Delivery Recall" -> l[2]
       [] k = "Late Delivery F1" -> l[3]]

\* Variant: the loop is left after any entry.
LoopDoneEarly(i) == i >= 1

\* The loop of line 136 is exhausted after entry i.
LoopDone(i) == i = Len(ModelNames)

HasNaN(X) == \E i \in DOMAIN X.rows : \E c \in X.cols : X.rows[i][c].nan

\* LogisticRegression, the first entry, validates its input: fit raises on
\* a missing value in X and on labels of a single class, predict on a
\* missing value in X.  (No later entry is reached with such data.)
Rejects(i, X, y) ==
  i = 1 /\ (HasNaN(X) \/ Cardinality(Range(y.vals)) < 2)

RejectsPredict(i, X) == i = 1 /\ HasNaN(X)

\* Line 102.
fit ==
  /\ pc \in {"fit_fraud", "fit_late"}
  /\ LET d == DataPassed(StepTarget(pc))
     IN  /\ ~Rejects(model_i, parts[d].X_train, parts[d].y_train)
         /\ models' = [models EXCEPT ![model_i].params = FitParams(@, d)]
         /\ log' = Append(log, [op |-> "fit", model |-> model_i, data |-> d,
                                params |-> FitParams(models[model_i].params, d)])
  /\ pc' = IF pc = "fit_fraud" THEN "predict_fraud" ELSE "predict_late"
  /\ UNCHANGED <<raised, early, processed_data, perm, parts, std, scaler,
                 model_i, evals, results, out_file>>

\* model.fit raises (always possible: the classifier is library code).
fit_fail ==
  /\ pc \in {"fit_fraud", "fit_late"}
  /\ Raise
  /\ UNCHANGED <<early, processed_data, later>>

\* Lines 106-120 and the assignment of lines 138 / 141.
predict ==
  /\ pc \in {"predict_fraud", "predict_late"}
  /\ LET d == DataPassed(StepTarget(pc))
     IN  /\ ~RejectsPredict(model_i, parts[d].X_test)
         /\ evals' = [evals EXCEPT ![StepTarget(pc)] = Metrics(models[model_i], d)]
         /\ log' = Append(log, [op |-> "predict", model |-> model_i, data |-> d,
                                params |-> models[model_i].params])
  /\ pc' = IF pc = "predict_fraud" THEN "fit_late" ELSE "append"
  /\ UNCHANGED <<raised, early, processed_data, perm, parts, std, scaler,
                 models, model_i, results, out_file>>

\* model.predict (or a metric) raises.
predict_fail ==
  /\ pc \in {"predict_fraud", "predict_late"}
  /\ Raise
  /\ UNCHANGED <<early, processed_data, later>>

\* Lines 143-151, and the loop's step.
append ==
  /\ pc = "append"
  /\ results' = Append(results, ResultRow(models[model_i].name,
                                          evals["fraud"], evals["late_delivery"]))
  /\ log' = Append(log, [op |-> "append", model |-> model_i, data |-> "",
                         params |-> models[model_i].params])
  /\ model_i' = model_i + 1
  /\ pc' = IF LoopDone(model_i) THEN "write" ELSE "fit_fraud"
  /\ UNCHANGED <<raised, early, processed_data, perm, parts, std, scaler,
                 models, evals, out_file>>

\* Lines 154-156 and 174-175: the table is written, returned and printed.
write_results ==
  /\ pc = "write"
  /\ out_file' = [exists |-> TRUE, rows |-> results]
  /\ pc' = "done"
  /\ UNCHANGED <<raised, early, processed_data, perm, parts, std, scaler,
                 models, model_i, evals, results, log>>

run_models == fit \/ fit_fail \/ predict \/ predict_fail \/ append \/ write_results

(***************************************************************************)
(* main (lines 160-175).                                                   *)
(***************************************************************************)
NoParts == [X_train |-> None, X_test |-> None, y_train |-> None, y_test |-> None]

InitWith(files) ==
  /\ pc = "load_data"
  /\ raised = ""
  /\ file \in files
  /\ dataset = None
  /\ data = None
  /\ col_i = 0
  /\ le_classes = << >>
  /\ le_input = << >>
  /\ processed_data = None
  /\ perm = << >>
  /\ parts = [t \in Targets |-> NoParts]
  /\ std = NoStd
  /\ scaler = [t \in Targets |-> NoScaler]
  /\ models = [i \in DOMAIN ModelNames |-> [name |-> ModelNames[i], params |-> Unfitted]]
  /\ model_i = 0
  /\ evals = [t \in Targets |-> << >>]
  /\ results = << >>
  /\ out_file = [exists |-> FALSE, rows |-> << >>]
  /\ log = << >>

\* The stages of main before run_models.
Prepare ==
  \/ load_data_ok
  \/ load_data_fail
  \/ KeyError
  \/ preprocess_data
  \/ \E target \in Targets : split_data(target)
  \/ split_data_fail
  \/ \E target \in Targets : standardize_fit(target)
  \/ \E target \in Targets : standardize_transform(target)

\* The whole script, on the files of at most MaxRows rows.
Init == InitWith(Files \cup FilesMissing)

Next == Prepare \/ run_models

Spec == Init /\ [][Next]_vars

\* The script up to the call of run_models, on the longer file as well.
SplitInit == InitWith(Files \cup FilesMissing \cup {LongFile})

SplitSpec == SplitInit /\ [][Prepare]_vars

(***************************************************************************)
(* Properties.                                                             *)
(***************************************************************************)
\* The events of the log about roster entry i, in order.
EventsOf(i) == SelectSeq(log, LAMBDA e : e.model = i)

\* Roster entry i has predicted the test data of target t.
Evaluated(i, t) ==
  \E j \in DOMAIN log :
    log[j].op = "predict" /\ log[j].model = i /\ log[j].data = t

\* The train / test rows of target t, taken from the processed table at the
\* index labels the label vectors carry.
TrainRows(t) == Take(Features(processed_data, t), parts[t].y_train.idx)
TestRows(t) == Take(Features(processed_data, t), parts[t].y_test.idx)

\* C1: the results file exists only once all nine classifiers have
\* completed both evaluations; when any step raises, the run is aborted
\* for good, no later roster entry has been fitted, and there is no
\* results file, not even a partial one.
C1_FileOnlyAfterAllModels ==
  /\ out_file.exists =>
       /\ raised = ""
       /\ Len(out_file.rows) = Len(ModelNames)
       /\ \A i \in DOMAIN ModelNames : \A t \in Targets : Evaluated(i, t)
  /\ raised # "" =>
       /\ pc = "aborted"
       /\ ~out_file.exists
       /\ ~ENABLED Next
       /\ \A i \in DOMAIN models : i > model_i => models[i].params = Unfitted

\* A predict raised for the sixth entry: five rows collected, no file.
C1_Witness ==
  /\ pc = "aborted"
  /\ raised = "predict_late"
  /\ Len(results) = 5
  /\ ~out_file.exists

\* The metric of kind k that roster entry i obtains for target t.
OwnMetric(k, i, t) ==
  [kind |-> k, model |-> ModelNames[i], fit_on |-> t, test_on |-> t]

\* C2: after the k-th iteration the table holds k rows; once the loop is
\* over it holds nine; row i carries the name of roster entry i and the
\* three fraud and three late-delivery metrics of that entry's own two
\* evaluations.
C2_OneRowPerModelInOrder ==
  /\ model_i >= 1 => Len(results) = model_i - 1
  /\ pc \in {"write", "done"} => Len(results) = Len(ModelNames)
  /\ \A i \in DOMAIN results :
       /\ results[i]["Model"] = ModelNames[i]
       /\ results[i]["Fraud Detection Accuracy"] = OwnMetric("accuracy", i, "fraud")
       /\ results[i]["Fraud Detection Recall"] = OwnMetric("recall", i, "fraud")
       /\ results[i]["Fraud Detection F1"] = OwnMetric("f1", i, "fraud")
       /\ results[i]["Late Delivery Accuracy"] = OwnMetric("accuracy", i, "late_delivery")
       /\ results[i]["Late Delivery Recall"] = OwnMetric("recall", i, "late_delivery")
       /\ results[i]["Late Delivery F1"] = OwnMetric("f1", i, "late_delivery")

C2_Witness ==
  /\ pc = "done"
  /\ Len(results) = Len(ModelNames)
  /\ out_file.rows = results

\* C3: for each target, the statistics of that call's scaler are those of
\* the train rows alone, before and after the test matrix is transformed,
\* and both matrices are scaled with exactly those statistics.
C3_ScalerFitOnTrainOnly ==
  \A t \in Targets :
    scaler[t].fitted =>
      LET train == TrainRows(t)
          stats == ColumnStats(train)
      IN  /\ scaler[t].stats = stats
          /\ pc # TransformPc(t) =>
                /\ parts[t].X_train = Transform(stats, train)
                /\ parts[t].X_test = Transform(stats, TestRows(t))

\* Both calls have returned, and for both the test rows have other
\* statistics than the train rows.
C3_Witness ==
  /\ pc = "fit_fraud"
  /\ \A t \in Targets :
       /\ scaler[t].fitted
       /\ scaler[t].stats # ColumnStats(TestRows(t))
  /\ scaler["fraud"] # scaler["late_delivery"]

\* C4: in the preprocessor output the fraud label of a row is 1 exactly
\* when the Order Status of that row in the file is "SUSPECTED_FRAUD", and
\* 0 otherwise (a missing status included).
C4_FraudLabel ==
  processed_data # None =>
    /\ Len(processed_data.rows) = Len(file.rows)
    /\ \A i \in DOMAIN processed_data.rows :
         /\ processed_data.rows[i]["fraud"] \in {0, 1}
         /\ processed_data.rows[i]["fraud"] = 1
              <=> file.rows[i]["Order Status"] = "SUSPECTED_FRAUD"

C4_Witness ==
  /\ processed_data # None
  /\ \E i, j \in DOMAIN processed_data.rows :
       /\ file.rows[i]["Order Status"] = NaNStr
       /\ processed_data.rows[i]["fraud"] = 0
       /\ file.rows[j]["Order Status"] = "SUSPECTED_FRAUD"
       /\ processed_data.rows[j]["fraud"] = 1

\* C5: the preprocessor output has no missing value in the zipcode, year,
\* month, weekday, hour and label columns.
C5_NoMissingDerived ==
  processed_data # None =>
    \A i \in DOMAIN processed_data.rows :
      \A c \in {"Customer Zipcode", "order_year", "order_month",
                "order_week_day", "order_hour", "fraud", "late_delivery"} :
        processed_data.rows[i][c] # NaN

\* C6: each split partitions the row positions into a train and a test
\* set, disjoint and exhaustive, the test set of ceil(n / 5) rows; the
\* feature matrices hold every column but the target and the label
\* vectors the target, at the same positions.
C6_SplitPartition ==
  \A t \in Targets :
    parts[t] # NoParts =>
      LET n  == Len(processed_data.rows)
          tr == parts[t].y_train.idx
          te == parts[t].y_test.idx
      IN  /\ Range(tr) \cap Range(te) = {}
          /\ Range(tr) \cup Range(te) = 1..n
          /\ Len(tr) + Len(te) = n
          /\ 5 * Len(te) >= n /\ 5 * Len(te) < n + 5
          /\ parts[t].X_train.cols = processed_data.cols \ {t}
          /\ parts[t].X_test.cols = processed_data.cols \ {t}
          /\ \A k \in DOMAIN tr : parts[t].y_train.vals[k] = processed_data.rows[tr[k]][t]
          /\ \A k \in DOMAIN te : parts[t].y_test.vals[k] = processed_data.rows[te[k]][t]
          /\ pc = FitPc(t) =>
               /\ parts[t].X_train = TrainRows(t)
               /\ parts[t].X_test = TestRows(t)

\* A split with a test set of two rows.
C6_Witness ==
  \E t \in Targets :
    /\ pc = FitPc(t)
    /\ Len(parts[t].y_test.idx) = 2
    /\ Len(parts[t].y_train.idx) >= 4

\* C7: once preprocess_data has returned, the raw table is as load_data
\* returned it, and the processed table is as preprocess_data returned it.
C7_RawTableNeverMutated ==
  processed_data # None => (dataset = file /\ processed_data = data)

\* C8: after each iteration of the encoding loop, with c the column just
\* encoded: the encoder was fitted on the whole column; two rows have the
\* same code exactly when they had the same value; the codes are exactly
\* 0 .. n-1 for n distinct values; decoding a code gives the value back.
C8_EncoderBijective ==
  col_i > 1 =>
    LET c     == categorical_columns[col_i - 1]
        codes == Column(data, c)
        n     == Cardinality(Range(le_input))
    IN  /\ Range(le_classes) = Range(le_input)
        /\ Len(le_classes) = n
        /\ Range(codes) = 0..(n - 1)
        /\ \A i, j \in DOMAIN codes : codes[i] = codes[j] <=> le_input[i] = le_input[j]
        /\ \A i \in DOMAIN codes : Decode(le_classes, codes[i]) = le_input[i]

\* The last column is encoded: three rows, two distinct names.
C8_Witness ==
  /\ pc = "pre_return"
  /\ categorical_columns[col_i - 1] = "Customer Full Name"
  /\ Len(le_input) = 3
  /\ Cardinality(Range(le_input)) = 2

\* C9: every predict is made with parameters learned by the latest fit of
\* that model, on the training data of the target predicted; the fits of a
\* model are fraud, then late delivery, each learning from its own data;
\* a model whose row is appended has gone through fit, predict, fit,
\* predict and has no event after the append.
C9_FitBeforePredictSameTarget ==
  /\ \A j \in DOMAIN log :
       log[j].op = "predict" =>
         /\ log[j].params = log[j].data
         /\ \E k \in 1..(j - 1) :
              /\ log[k].op = "fit" /\ log[k].model = log[j].model
              /\ log[k].data = log[j].data
              /\ \A l \in (k + 1)..(j - 1) :
                   ~(log[l].op = "fit" /\ log[l].model = log[j].model)
  /\ \A j \in DOMAIN log : log[j].op = "fit" => log[j].params = log[j].data
  /\ \A i \in DOMAIN ModelNames :
       LET ev  == EventsOf(i)
           all == <<[op |-> "fit", data |-> "fraud"],
                    [op |-> "predict", data |-> "fraud"],
                    [op |-> "fit", data |-> "late_delivery"],
                    [op |-> "predict", data |-> "late_delivery"],
                    [op |-> "append", data |-> ""]>>
       IN  /\ Len(ev) <= Len(all)
           /\ \A k \in DOMAIN ev : ev[k].op = all[k].op /\ ev[k].data = all[k].data
           /\ i < model_i => Len(ev) = Len(all)

\* The second entry predicts late delivery after the first one's row.
C9_Witness ==
  /\ Len(log) = 9
  /\ log[5].op = "append" /\ log[5].model = 1
  /\ log[9].op = "predict" /\ log[9].model = 2 /\ log[9].data = "late_delivery"
  /\ models[1].params = "late_delivery"

\* The weekday of row i of the file (7 for a missing date, so that it
\* sorts last).
FileWeekday(i) ==
  LET w == DateWeekday(file.rows[i]["order date (DateOrders)"])
  IN  IF w = NaN THEN 7 ELSE w

\* C10 as stated: the weekday column of the output holds the calendar
\* weekday (0 = Monday) of every row that has an order date.
C10_WeekdayIsCalendarDay ==
  processed_data # None =>
    \A i \in DOMAIN processed_data.rows :
      file.rows[i]["order date (DateOrders)"] # NaT =>
        processed_data.rows[i]["order_week_day"]
          = DateWeekday(file.rows[i]["order date (DateOrders)"])

\* C10 amended: the weekday column of the output holds the rank of the
\* row's calendar weekday among the distinct weekdays that occur in the
\* table (a missing date ranking last), from 0.
C10_WeekdayIsRank ==
  processed_data # None =>
    \A i \in DOMAIN processed_data.rows :
      processed_data.rows[i]["order_week_day"]
        = Cardinality({FileWeekday(j) : j \in DOMAIN file.rows}
                        \cap 0..(FileWeekday(i) - 1))

\* A Wednesday and a Friday: codes 0 and 1, not 2 and 4.
C10_Witness ==
  /\ processed_data # None
  /\ \E i, j \in DOMAIN processed_data.rows :
       /\ FileWeekday(i) = 2 /\ processed_data.rows[i]["order_week_day"] = 0
       /\ FileWeekday(j) = 4 /\ processed_data.rows[j]["order_week_day"] = 1

====
